---------------------------- MODULE Spec2Model ----------------------------
(***************************************************************************)
(* A model of tdx-quote: Quote::from_bytes (decode and verify a TDX quote), *)
(* the certification-data decoders, Quote::verify_with_pck and the mock     *)
(* quote generator with its serializers.                                    *)
(*                                                                          *)
(* Byte strings are sequences over 0..255 and the decoders work on them at  *)
(* the offsets and widths of the source.  The two external cryptographic    *)
(* primitives (SHA-256 and ECDSA over P-256) are abstracted:                *)
(*   - Sha256 is a 32-byte digest built from two position-weighted          *)
(*     checksums; any change of a single byte changes the digest;           *)
(*   - a signing key is a small number, its public key is a fixed 64-byte   *)
(*     X||Y string, and a signature is the 64-byte string r||s determined   *)
(*     by the key and the digest of the message (ECDSA with deterministic   *)
(*     nonces).                                                             *)
(***************************************************************************)
EXTENDS Integers, Sequences, FiniteSets, TLC

\* ------------------------------------------------------------------------
\* Program constants

QUOTE_HEADER_LENGTH == 48
V4_QUOTE_BODY_LENGTH == 584
V5_QUOTE_BODY_LENGTH == V4_QUOTE_BODY_LENGTH + 64
V4_MOCK_QUOTE_LENGTH == QUOTE_HEADER_LENGTH + V4_QUOTE_BODY_LENGTH + 4 + 64 + 64 + 2 + 4

TEE_SGX == 0
TEE_TDX == 129
KEY_ECDSA256 == 2
KEY_ECDSA384 == 3

\* ------------------------------------------------------------------------
\* Bounds of the model

\* signing keys are 1..MaxKey
MaxKey == 2
\* authentication data of a generated QE report has 0..MaxAuth bytes
MaxAuth == 1
\* the fill byte of generated body fields and report data ranges over 0..MaxFill
MaxFill == 1

\* ------------------------------------------------------------------------
\* Bytes and little-endian integers

Rep(b, n) == [i \in 1..n |-> b]

Drop(s, n) == SubSeq(s, n + 1, Len(s))

Prefix(s, n) == SubSeq(s, 1, n)

\* to_le_bytes of a value of the given width (two's complement if negative)
LeBytes(v, width) == [i \in 1..width |-> (v \div (256 ^ (i - 1))) % 256]

LeBytesSigned(v, width) == LeBytes(v, width)

\* a u16 from its 2 little-endian bytes
U16Value(s) == s[1] + 256 * s[2]

\* a u32 from its 4 little-endian bytes, as its low and high 16-bit halves
U32Value(s) == <<s[1] + 256 * s[2], s[3] + 256 * s[4]>>

\* the u32 of a small number
U32(n) == <<n % 65536, n \div 65536>>

\* an i16 / i32 from its little-endian bytes
I16Value(s) == s[1] + 256 * (IF s[2] >= 128 THEN s[2] - 256 ELSE s[2])

I32Value(s) ==
    s[1] + 256 * s[2] + 65536 * s[3]
    + 16777216 * (IF s[4] >= 128 THEN s[4] - 256 ELSE s[4])

\* ------------------------------------------------------------------------
\* Results: Ok(value), Err(error), and for a parser Ok carries the rest

Ok(v) == [ok |-> TRUE, val |-> v]
Err(e) == [ok |-> FALSE, err |-> e]
POk(rest, v) == [ok |-> TRUE, rest |-> rest, val |-> v]

\* nom::bytes::complete::take(n): the first n bytes, or an error if too short
take(input, n) ==
    IF Len(input) < n THEN Err("nom")
    ELSE POk(Drop(input, n), Prefix(input, n))

le_u16(input) ==
    LET r == take(input, 2) IN
    IF r.ok THEN POk(r.rest, U16Value(r.val)) ELSE r

le_u32(input) ==
    LET r == take(input, 4) IN
    IF r.ok THEN POk(r.rest, U32Value(r.val)) ELSE r

le_i16(input) ==
    LET r == take(input, 2) IN
    IF r.ok THEN POk(r.rest, I16Value(r.val)) ELSE r

le_i32(input) ==
    LET r == take(input, 4) IN
    IF r.ok THEN POk(r.rest, I32Value(r.val)) ELSE r

\* take2 .. take64: map_res(take(n), try_into) to a fixed-size array
takeN(input, n) == take(input, n)

take384(input) == takeN(input, 384)

\* ------------------------------------------------------------------------
\* SHA-256 and ECDSA P-256 (abstracted)

HashModulus == 65521

RECURSIVE WeightedSum(_, _, _, _)
WeightedSum(s, lo, hi, w) ==
    IF lo > hi THEN 0
    ELSE IF lo = hi THEN ((lo + w) * s[lo]) % HashModulus
    ELSE LET mid == (lo + hi) \div 2 IN
         (WeightedSum(s, lo, mid, w) + WeightedSum(s, mid + 1, hi, w)) % HashModulus

\* Sha256::new(), update(..), finalize(): a 32-byte digest
Sha256(msg) ==
    LET c1 == (Len(msg) + WeightedSum(msg, 1, Len(msg), 0)) % HashModulus
        c2 == WeightedSum(msg, 1, Len(msg), 1000)
    IN  LeBytes(c1, 2) \o LeBytes(c2, 2) \o Rep(90, 28)

SigningKeys == 1..MaxKey

\* the raw X||Y coordinates of the public key of signing key k
PointOf(k) == <<16 + k>> \o Rep(32, 31) \o <<48 + k>> \o Rep(64, 31)

\* VerifyingKey::from(&signing_key)
VerifyingKeyOf(k) == [point |-> PointOf(k)]

\* VerifyingKey::to_sec1_bytes: 0x04 and the raw coordinates
to_sec1_bytes(vk) == <<4>> \o vk.point

\* VerifyingKey::from_sec1_bytes on an uncompressed encoding
from_sec1_bytes(bytes) ==
    IF Len(bytes) = 65 /\ bytes[1] = 4
       /\ \E k \in SigningKeys : Drop(bytes, 1) = PointOf(k)
    THEN Ok([point |-> Drop(bytes, 1)])
    ELSE Err("ecdsa")

\* SigningKey::sign: r||s, 32 bytes each
Sign(k, msg) ==
    LET h == Sha256(msg) IN (<<k>> \o Prefix(h, 31)) \o h

\* Signature::from_bytes: r and s must be non-zero scalars
Signature_from_bytes(bytes) ==
    IF Len(bytes) = 64
       /\ Prefix(bytes, 32) # Rep(0, 32)
       /\ Drop(bytes, 32) # Rep(0, 32)
    THEN Ok(bytes)
    ELSE Err("ecdsa")

\* Verifier::verify(msg, signature) for a verifying key
Verify(vk, msg, sig) ==
    \E k \in SigningKeys : vk.point = PointOf(k) /\ sig = Sign(k, msg)

\* ------------------------------------------------------------------------
\* Enumerations

\* impl TryFrom<u32> for TEEType
TEEType_try_from(value) ==
    IF value = U32(TEE_SGX) THEN Ok("SGX")
    ELSE IF value = U32(TEE_TDX) THEN Ok("TDX")
    ELSE Err("Failure")

\* TEEType as u32
TEEType_as_u32(t) == IF t = "SGX" THEN TEE_SGX ELSE TEE_TDX

\* ECDSA-P384 not among the known key types
AttestionKeyType_try_from_p256_only(value) ==
    IF value = KEY_ECDSA256 THEN Ok("ECDSA256WithP256") ELSE Err("Failure")

\* impl TryFrom<u16> for AttestionKeyType
AttestionKeyType_try_from(value) ==
    IF value = KEY_ECDSA256 THEN Ok("ECDSA256WithP256")
    ELSE IF value = KEY_ECDSA384 THEN Ok("ECDSA384WithP384")
    ELSE Err("Failure")

\* AttestionKeyType as u16
AttestionKeyType_as_u16(t) ==
    IF t = "ECDSA256WithP256" THEN KEY_ECDSA256 ELSE KEY_ECDSA384

\* the two body types swapped
TDXVersion_try_from_swapped(value) ==
    IF value = 3 THEN Ok("One")
    ELSE IF value = 2 THEN Ok("OnePointFive")
    ELSE Err("Parse")

\* every body type other than 3 taken for TDX 1.0
TDXVersion_try_from_lenient(value) ==
    IF value = 3 THEN Ok("OnePointFive") ELSE Ok("One")

\* impl TryFrom<u16> for TDXVersion
TDXVersion_try_from(value) ==
    IF value = 2 THEN Ok("One")
    ELSE IF value = 3 THEN Ok("OnePointFive")
    ELSE Err("Parse")

\* ------------------------------------------------------------------------
\* Header and body parsers

\* a tuple((p1, .., pn)) of fixed-width takes: the fields, in order
RECURSIVE TakeAll(_, _)
TakeAll(input, widths) ==
    IF widths = <<>> THEN POk(input, <<>>)
    ELSE LET r == takeN(input, Head(widths)) IN
         IF ~r.ok THEN r
         ELSE LET t == TakeAll(r.rest, Tail(widths)) IN
              IF ~t.ok THEN t ELSE POk(t.rest, <<r.val>> \o t.val)

HeaderWidths == <<2, 2, 4, 2, 2, 16, 20>>

quote_header_parser(input) ==
    LET t == TakeAll(input, HeaderWidths) IN
    IF ~t.ok THEN t
    ELSE LET akt == AttestionKeyType_try_from(U16Value(t.val[2]))
             tee == TEEType_try_from(U32Value(t.val[3]))
         IN  IF ~akt.ok THEN Err("nom")
             ELSE IF ~tee.ok THEN Err("nom")
             ELSE POk(t.rest,
                      [version |-> U16Value(t.val[1]),
                       attestation_key_type |-> akt.val,
                       tee_type |-> tee.val,
                       reserved1 |-> t.val[4],
                       reserved2 |-> t.val[5],
                       qe_vendor_id |-> t.val[6],
                       user_data |-> t.val[7]])

BodyWidths == <<16, 48, 48, 8, 8, 8, 48, 48, 48, 48, 48, 48, 48, 48, 64>>

None == [some |-> FALSE]
Some(v) == [some |-> TRUE, val |-> v]

basic_body_parser(input) ==
    LET t == TakeAll(input, BodyWidths) IN
    IF ~t.ok THEN t
    ELSE POk(t.rest,
             [tdx_version |-> "One",
              tee_tcb_svn |-> t.val[1],
              mrseam |-> t.val[2],
              mrsignerseam |-> t.val[3],
              seamattributes |-> t.val[4],
              tdattributes |-> t.val[5],
              xfam |-> t.val[6],
              mrtd |-> t.val[7],
              mrconfigid |-> t.val[8],
              mrowner |-> t.val[9],
              mrownerconfig |-> t.val[10],
              rtmr0 |-> t.val[11],
              rtmr1 |-> t.val[12],
              rtmr2 |-> t.val[13],
              rtmr3 |-> t.val[14],
              reportdata |-> t.val[15],
              tee_tcb_svn_2 |-> None,
              mrservicetd |-> None])

\* the first match of body_parser: the TDX version and the input after it
BodyVersion(input, version) ==
    IF version = 4 THEN POk(input, "One")
    ELSE IF version = 5 THEN
        LET bt == le_u16(input) IN
        IF ~bt.ok THEN bt
        ELSE LET bs == le_u32(bt.rest) IN
             IF ~bs.ok THEN bs
             ELSE LET tv == TDXVersion_try_from(bt.val) IN
                  IF ~tv.ok THEN Err("nom") ELSE POk(bs.rest, tv.val)
    ELSE Err("nom")

body_parser(input, version) ==
    LET v == BodyVersion(input, version) IN
    IF ~v.ok THEN v
    ELSE LET b == basic_body_parser(v.rest) IN
         IF ~b.ok THEN b
         ELSE IF v.val = "OnePointFive" THEN
             LET s == takeN(b.rest, 16) IN
             IF ~s.ok THEN s
             ELSE LET m == takeN(s.rest, 48) IN
                  IF ~m.ok THEN m
                  ELSE POk(m.rest,
                           [b.val EXCEPT !.tdx_version = "OnePointFive",
                                         !.tee_tcb_svn_2 = Some(s.val),
                                         !.mrservicetd = Some(m.val)])
         ELSE b

\* ------------------------------------------------------------------------
\* Errors

QuoteParseErrors ==
    {"Parse", "Verification", "UnknownCertificationDataType",
     "UnknownQuoteVersion", "IntConversionError",
     "UnsupportedAttestationKeyType", "AttestationKeyDoesNotMatch"}

\* impl From<nom::Err<..>> for QuoteParseError
From_nom(e) == "Parse"

\* impl From<p256::ecdsa::Error> for QuoteParseError
From_ecdsa(e) == "Verification"

\* impl From<TryFromIntError> for QuoteParseError
From_TryFromIntError(e) == "IntConversionError"

\* impl From<p256::ecdsa::Error> for QuoteVerificationError
VerificationError_from_ecdsa(e) == "BadSignature"

\* a panic (an out-of-range slice index) is not an error value
Panic == [ok |-> FALSE, err |-> "panic"]

\* i16 / i32 -> usize (try_into)
usize_try_from(v) == IF v < 0 THEN Err("TryFromIntError") ELSE Ok(v)

\* ------------------------------------------------------------------------
\* Certification data

VariantNames ==
    <<"PckIdPpidPlainCpusvnPcesvn", "PckIdPpidRSA2048CpusvnPcesvn",
      "PckIdPpidRSA3072CpusvnPcesvn", "PckLeafCert", "PckCertChain",
      "QeReportCertificationData", "PlatformManifest">>

\* the hash taken from the last 32 bytes of the report
expected_hash_last(qe_report) == SubSeq(qe_report, 384 - 32 + 1, 384)

\* the expected hash inside the QE report
expected_hash(qe_report) == SubSeq(qe_report, 384 - 64 + 1, 384 - 32)

\* the decoder with the 32 bytes after the hash required to be null
QeReportCertificationData_new_null_padding(input, attestation_key) ==
    LET r == take384(input) IN
    IF ~r.ok THEN Err(From_nom(r.err))
    ELSE LET sb == takeN(r.rest, 64) IN
    IF ~sb.ok THEN Err(From_nom(sb.err))
    ELSE LET sig == Signature_from_bytes(sb.val) IN
    IF ~sig.ok THEN Err(From_ecdsa(sig.err))
    ELSE LET sz == le_i16(sb.rest) IN
    IF ~sz.ok THEN Err(From_nom(sz.err))
    ELSE LET n == usize_try_from(sz.val) IN
    IF ~n.ok THEN Err(From_TryFromIntError(n.err))
    ELSE LET a == take(sz.rest, n.val) IN
    IF ~a.ok THEN Err(From_nom(a.err))
    ELSE LET hash == Sha256(attestation_key \o a.val) IN
    IF hash # expected_hash(r.val) \/ expected_hash_last(r.val) # Rep(0, 32)
    THEN Err("AttestationKeyDoesNotMatch")
    ELSE Ok([qe_report |-> r.val,
             signature |-> sig.val,
             qe_authentication_data |-> a.val,
             certification_data |-> a.rest])

\* QeReportCertificationData::new
QeReportCertificationData_new(input, attestation_key) ==
    LET r == take384(input) IN
    IF ~r.ok THEN Err(From_nom(r.err))
    ELSE LET sb == takeN(r.rest, 64) IN
    IF ~sb.ok THEN Err(From_nom(sb.err))
    ELSE LET sig == Signature_from_bytes(sb.val) IN
    IF ~sig.ok THEN Err(From_ecdsa(sig.err))
    ELSE LET sz == le_i16(sb.rest) IN
    IF ~sz.ok THEN Err(From_nom(sz.err))
    ELSE LET n == usize_try_from(sz.val) IN
    IF ~n.ok THEN Err(From_TryFromIntError(n.err))
    ELSE LET a == take(sz.rest, n.val) IN
    IF ~a.ok THEN Err(From_nom(a.err))
    ELSE LET hash == Sha256(attestation_key \o a.val) IN
    IF hash # expected_hash(r.val) THEN Err("AttestationKeyDoesNotMatch")
    ELSE Ok([qe_report |-> r.val,
             signature |-> sig.val,
             qe_authentication_data |-> a.val,
             certification_data |-> a.rest])

\* the match without the arm for tag 7
CertificationData_new_no_manifest(certification_data_type, data, attestation_key) ==
    IF certification_data_type \in 1..5
    THEN Ok([variant |-> VariantNames[certification_data_type], data |-> data])
    ELSE IF certification_data_type = 6 THEN
        LET q == QeReportCertificationData_new(data, attestation_key) IN
        IF ~q.ok THEN q
        ELSE Ok([variant |-> VariantNames[6], qe |-> q.val])
    ELSE Err("UnknownCertificationDataType")

\* CertificationData::new
CertificationData_new(certification_data_type, data, attestation_key) ==
    IF certification_data_type = 6 THEN
        LET q == QeReportCertificationData_new(data, attestation_key) IN
        IF ~q.ok THEN q
        ELSE Ok([variant |-> VariantNames[6], qe |-> q.val])
    ELSE IF certification_data_type \in 1..7 THEN
        Ok([variant |-> VariantNames[certification_data_type], data |-> data])
    ELSE Err("UnknownCertificationDataType")

\* ------------------------------------------------------------------------
\* Quote::from_bytes

\* the body length of a quote version (0: the version is unknown)
body_length(version) ==
    IF version = 4 THEN V4_QUOTE_BODY_LENGTH
    ELSE IF version = 5 THEN V5_QUOTE_BODY_LENGTH
    ELSE 0

\* the window as the bytes the header and body parsers consumed
signed_data_consumed(original_input, version) ==
    LET b == body_parser(Drop(original_input, QUOTE_HEADER_LENGTH), version) IN
    Prefix(original_input, Len(original_input) - Len(b.rest))

\* &original_input[..QUOTE_HEADER_LENGTH + body_length]
signed_data(original_input, version) ==
    Prefix(original_input, QUOTE_HEADER_LENGTH + body_length(version))

\* the verification result is dropped
verify_signed_data_unchecked(attestation_key, signed, signature) == Ok("unit")

\* attestation_key.verify(signed_data, &signature)?
verify_signed_data(attestation_key, signed, signature) ==
    IF Verify(attestation_key, signed, signature) THEN Ok("unit") ELSE Err("ecdsa")

\* the certification data required to end the input
from_bytes_certification_to_end(input, header, body, signature, attestation_key, attestation_key_bytes) ==
    LET ty == le_i16(input) IN
    IF ~ty.ok THEN Err(From_nom(ty.err))
    ELSE LET ln == le_i32(ty.rest) IN
    IF ~ln.ok THEN Err(From_nom(ln.err))
    ELSE LET n == usize_try_from(ln.val) IN
    IF ~n.ok THEN Err(From_TryFromIntError(n.err))
    ELSE LET cd == take(ln.rest, n.val) IN
    IF ~cd.ok THEN Err(From_nom(cd.err))
    ELSE IF cd.rest # <<>> THEN Err(From_nom("nom"))
    ELSE LET c == CertificationData_new(ty.val, cd.val, attestation_key_bytes) IN
    IF ~c.ok THEN c
    ELSE Ok([header |-> header,
             body |-> body,
             signature |-> signature,
             attestation_key |-> attestation_key,
             certification_data |-> c.val])

\* from_bytes once the signature has verified: the certification data
from_bytes_certification(input, header, body, signature, attestation_key, attestation_key_bytes) ==
    LET ty == le_i16(input) IN
    IF ~ty.ok THEN Err(From_nom(ty.err))
    ELSE LET ln == le_i32(ty.rest) IN
    IF ~ln.ok THEN Err(From_nom(ln.err))
    ELSE LET n == usize_try_from(ln.val) IN
    IF ~n.ok THEN Err(From_TryFromIntError(n.err))
    ELSE LET cd == take(ln.rest, n.val) IN
    IF ~cd.ok THEN Err(From_nom(cd.err))
    ELSE LET c == CertificationData_new(ty.val, cd.val, attestation_key_bytes) IN
    IF ~c.ok THEN c
    ELSE Ok([header |-> header,
             body |-> body,
             signature |-> signature,
             attestation_key |-> attestation_key,
             certification_data |-> c.val])

\* the certification data decoded before the signature is verified
from_bytes_signature_certification_first(original_input, input, header, body) ==
    LET sl == le_i32(input) IN
    IF ~sl.ok THEN Err(From_nom(sl.err))
    ELSE LET sb == take(sl.rest, 64) IN
    IF ~sb.ok THEN Err(From_nom(sb.err))
    ELSE LET sig == Signature_from_bytes(sb.val) IN
    IF ~sig.ok THEN Err(From_ecdsa(sig.err))
    ELSE LET kb == take(sb.rest, 64) IN
    IF ~kb.ok THEN Err(From_nom(kb.err))
    ELSE LET key == from_sec1_bytes(<<4>> \o kb.val) IN
    IF ~key.ok THEN Err(From_ecdsa(key.err))
    ELSE LET c == from_bytes_certification(kb.rest, header, body, sig.val, key.val, kb.val) IN
    IF ~c.ok THEN c
    ELSE LET v == verify_signed_data(key.val, signed_data(original_input, header.version), sig.val) IN
    IF ~v.ok THEN Err(From_ecdsa(v.err))
    ELSE c

\* the SEC1 bytes, with the 0x04 marker, handed to the certification data
from_bytes_signature_sec1(original_input, input, header, body) ==
    LET sl == le_i32(input) IN
    IF ~sl.ok THEN Err(From_nom(sl.err))
    ELSE LET sb == take(sl.rest, 64) IN
    IF ~sb.ok THEN Err(From_nom(sb.err))
    ELSE LET sig == Signature_from_bytes(sb.val) IN
    IF ~sig.ok THEN Err(From_ecdsa(sig.err))
    ELSE LET kb == take(sb.rest, 64) IN
    IF ~kb.ok THEN Err(From_nom(kb.err))
    ELSE LET key == from_sec1_bytes(<<4>> \o kb.val) IN
    IF ~key.ok THEN Err(From_ecdsa(key.err))
    ELSE LET v == verify_signed_data(key.val, signed_data(original_input, header.version), sig.val) IN
    IF ~v.ok THEN Err(From_ecdsa(v.err))
    ELSE from_bytes_certification(kb.rest, header, body, sig.val, key.val, <<4>> \o kb.val)

\* from_bytes after the body: signature, attestation key, verification
from_bytes_signature(original_input, input, header, body) ==
    LET sl == le_i32(input) IN
    IF ~sl.ok THEN Err(From_nom(sl.err))
    ELSE LET sb == take(sl.rest, 64) IN
    IF ~sb.ok THEN Err(From_nom(sb.err))
    ELSE LET sig == Signature_from_bytes(sb.val) IN
    IF ~sig.ok THEN Err(From_ecdsa(sig.err))
    ELSE LET kb == take(sb.rest, 64) IN
    IF ~kb.ok THEN Err(From_nom(kb.err))
    ELSE LET key == from_sec1_bytes(<<4>> \o kb.val) IN
    IF ~key.ok THEN Err(From_ecdsa(key.err))
    ELSE LET v == verify_signed_data(key.val, signed_data(original_input, header.version), sig.val) IN
    IF ~v.ok THEN Err(From_ecdsa(v.err))
    ELSE from_bytes_certification(kb.rest, header, body, sig.val, key.val, kb.val)

from_bytes(original_input) ==
    LET h == quote_header_parser(original_input) IN
    IF ~h.ok THEN Err(From_nom(h.err))
    ELSE IF h.val.attestation_key_type # "ECDSA256WithP256"
         THEN Err("UnsupportedAttestationKeyType")
    ELSE IF h.val.version \notin {4, 5} THEN Err("UnknownQuoteVersion")
    ELSE IF Len(original_input) < QUOTE_HEADER_LENGTH + body_length(h.val.version)
         THEN Panic
    ELSE LET b == body_parser(h.rest, h.val.version) IN
    IF ~b.ok THEN Err(From_nom(b.err))
    ELSE from_bytes_signature(original_input, b.rest, h.val, b.val)

\* Quote::qe_report_certification_data
qe_report_certification_data(quote) ==
    IF quote.certification_data.variant = VariantNames[6]
    THEN Some(quote.certification_data.qe)
    ELSE None

\* the PCK checked against the quote's own signature
verify_with_pck_quote_signature(quote, pck) ==
    LET q == qe_report_certification_data(quote) IN
    IF ~q.some THEN Err("NoQeReportCertificationData")
    ELSE IF ~Verify(pck, q.val.qe_report, quote.signature)
         THEN Err(VerificationError_from_ecdsa("ecdsa"))
    ELSE Ok("unit")

\* Quote::verify_with_pck
verify_with_pck(quote, pck) ==
    LET q == qe_report_certification_data(quote) IN
    IF ~q.some THEN Err("NoQeReportCertificationData")
    ELSE IF ~Verify(pck, q.val.qe_report, q.val.signature)
         THEN Err(VerificationError_from_ecdsa("ecdsa"))
    ELSE Ok("unit")

\* ------------------------------------------------------------------------
\* The mock quote generator and its serializers (mock.rs)

\* Serialize a quote header
quote_header_serializer(header) ==
    LeBytes(header.version, 2)
    \o LeBytes(AttestionKeyType_as_u16(header.attestation_key_type), 2)
    \o LeBytes(TEEType_as_u32(header.tee_type), 4)
    \o header.reserved1 \o header.reserved2
    \o header.qe_vendor_id \o header.user_data

\* Serialize a v4 quote body
quote_body_v4_serializer(body) ==
    body.tee_tcb_svn \o body.mrseam \o body.mrsignerseam
    \o body.seamattributes \o body.tdattributes \o body.xfam
    \o body.mrtd \o body.mrconfigid \o body.mrowner \o body.mrownerconfig
    \o body.rtmr0 \o body.rtmr1 \o body.rtmr2 \o body.rtmr3
    \o body.reportdata

\* certification_data_serializer: only the QE report variant is implemented
certification_data_serializer(cd) ==
    cd.qe.qe_report \o cd.qe.signature \o LeBytesSigned(0, 2)

MockHeader ==
    [version |-> 4,
     attestation_key_type |-> "ECDSA256WithP256",
     tee_type |-> "TDX",
     reserved1 |-> Rep(0, 2),
     reserved2 |-> Rep(0, 2),
     qe_vendor_id |-> Rep(0, 16),
     user_data |-> Rep(0, 20)]

MockBody(reportdata) ==
    [tdx_version |-> "One",
     tee_tcb_svn |-> Rep(0, 16),
     mrseam |-> Rep(0, 48),
     mrsignerseam |-> Rep(0, 48),
     seamattributes |-> Rep(0, 8),
     tdattributes |-> Rep(0, 8),
     xfam |-> Rep(0, 8),
     mrtd |-> Rep(0, 48),
     mrconfigid |-> Rep(0, 48),
     mrowner |-> Rep(0, 48),
     mrownerconfig |-> Rep(0, 48),
     rtmr0 |-> Rep(0, 48),
     rtmr1 |-> Rep(0, 48),
     rtmr2 |-> Rep(0, 48),
     rtmr3 |-> Rep(0, 48),
     reportdata |-> reportdata,
     tee_tcb_svn_2 |-> None,
     mrservicetd |-> None]

\* the hash written to the last 32 bytes of the report
MockQeReport_last(hash) == Rep(0, 384 - 32) \o hash

\* the QE report of the mock: zeros, with the hash at [384 - 64, 384 - 32)
MockQeReport(hash) == Rep(0, 384 - 64) \o hash \o Rep(0, 32)

\* Quote::mock
mock(attestation_key, provisioning_certification_key, reportdata) ==
    LET header == MockHeader
        body == MockBody(reportdata)
        message == quote_header_serializer(header) \o quote_body_v4_serializer(body)
        signature == Sign(attestation_key, message)
        verifying_key == to_sec1_bytes(VerifyingKeyOf(attestation_key))
        qe_authentication_data == <<>>
        hash == Sha256(Drop(verifying_key, 1) \o qe_authentication_data)
        qe_report == MockQeReport(hash)
    IN  [header |-> header,
         body |-> body,
         signature |-> signature,
         attestation_key |-> VerifyingKeyOf(attestation_key),
         certification_data |->
             [variant |-> VariantNames[6],
              qe |-> [qe_report |-> qe_report,
                      signature |-> Sign(provisioning_certification_key, qe_report),
                      qe_authentication_data |-> qe_authentication_data,
                      certification_data |-> <<>>]]]

\* Quote::as_bytes
as_bytes(quote) ==
    LET certification_data == certification_data_serializer(quote.certification_data)
    IN  quote_header_serializer(quote.header)
        \o quote_body_v4_serializer(quote.body)
        \o LeBytesSigned(0, 4)
        \o quote.signature
        \o Drop(to_sec1_bytes(quote.attestation_key), 1)
        \o LeBytesSigned(6, 2)
        \o LeBytesSigned(Len(certification_data), 4)
        \o certification_data

\* ------------------------------------------------------------------------
\* Quote producers other than the mock: byte strings laid out as the decoder
\* reads them, with the fields, the signed window, the certification-data
\* tag, length and payload chosen by the producer

\* n bytes that differ from position to position
Pattern(n, fill) == [i \in 1..n |-> (fill * 100 + i) % 251]

\* the 48 header bytes for a raw version, key type and TEE type
HeaderBytes(version, key_type, tee_type, fill) ==
    LeBytes(version, 2) \o LeBytes(key_type, 2) \o LeBytes(tee_type, 4)
    \o Pattern(40, fill)

\* the body bytes: for version 5 the body type and size come first, and a
\* body of type 3 carries the 16 + 48 extra bytes
BodyBytes(version, body_type, fill) ==
    IF version = 5
    THEN LeBytes(body_type, 2)
         \o LeBytes(IF body_type = 3 THEN 648 ELSE 584, 4)
         \o Pattern(IF body_type = 3 THEN 648 ELSE 584, fill)
    ELSE Pattern(584, fill)

\* a QE report that embeds the given hash
QeReportBytes(hash) == Pattern(384 - 64, 1) \o hash \o Rep(0, 32)

\* a tag-6 payload: the hash is taken over hashed_auth, the payload carries auth
QePayload(ak, pck, auth, hashed_auth, trailing) ==
    LET qe_report == QeReportBytes(Sha256(PointOf(ak) \o hashed_auth)) IN
    qe_report \o Sign(pck, qe_report) \o LeBytesSigned(Len(auth), 2)
    \o auth \o trailing

OpaquePayload == <<11, 22, 33>>

\* the quote bytes; window is the number of leading bytes the producer signs
QuoteBytes(head, body, ak, window, tag, declared_len, payload) ==
    LET tailBytes == PointOf(ak) \o LeBytesSigned(tag, 2)
                     \o LeBytesSigned(declared_len, 4) \o payload
        unsigned == head \o body \o LeBytesSigned(0, 4) \o Rep(0, 64) \o tailBytes
        signature == Sign(ak, Prefix(unsigned, window))
    IN  head \o body \o LeBytesSigned(0, 4) \o signature \o tailBytes

\* ------------------------------------------------------------------------
\* The state: the caller's byte buffer, how it came about, the quote the mock
\* generator returned, and the results of the last decoding and verification

VARIABLES input, origin, quote, res, vres

vars == <<input, origin, quote, res, vres>>

NoRes == [op |-> "none"]

\* kind: how the buffer was made; off: the offset changed or the length kept;
\* version: the version of the quote before that; ak, pck: the mock's keys
Origin(kind, off, version, ak, pck) ==
    [kind |-> kind, off |-> off, version |-> version, ak |-> ak, pck |-> pck]

Init ==
    /\ input = <<>>
    /\ origin = Origin("none", 0, 0, 0, 0)
    /\ quote = None
    /\ res = NoRes
    /\ vres = NoRes

Fills == 0..MaxFill

\* Quote::mock with the given keys and report data
Mock(ak, pck, fill) ==
    /\ origin.kind = "none"
    /\ res.op = "none"
    /\ quote' = Some(mock(ak, pck, Rep(fill, 64)))
    /\ origin' = Origin("mock", 0, 4, ak, pck)
    /\ input' = <<>>
    /\ res' = NoRes
    /\ vres' = NoRes

\* Quote::as_bytes of the mock quote
AsBytes ==
    /\ quote.some
    /\ origin.kind = "mock"
    /\ input = <<>>
    /\ input' = as_bytes(quote.val)
    /\ UNCHANGED <<origin, quote, res, vres>>

\* Quote::from_bytes on the buffer
FromBytes ==
    /\ res.op = "none"
    /\ origin.kind = "mock" => input # <<>>
    /\ res' = [op |-> "from_bytes", out |-> from_bytes(input)]
    /\ UNCHANGED <<input, origin, quote, vres>>

\* body_parser on the bytes after a header that parses
BodyParser ==
    /\ res.op = "none"
    /\ origin.kind \in {"built", "truncated"}
    /\ LET h == quote_header_parser(input) IN
       /\ h.ok
       /\ res' = [op |-> "body_parser",
                  version |-> h.val.version,
                  out |-> body_parser(h.rest, h.val.version)]
    /\ UNCHANGED <<input, origin, quote, vres>>

Versions == {3, 4, 5}
KeyTypes == {1, KEY_ECDSA256, KEY_ECDSA384}
TeeTypes == {TEE_SGX, TEE_TDX, 130}
BodyTypes == {1, 2, 3}
Tags == -1..8
LenModes == {"exact", "negative", "over"}

\* the length a producer declares for a payload
DeclaredLen(mode, payload) ==
    IF mode = "exact" THEN Len(payload)
    ELSE IF mode = "negative" THEN 0 - Len(payload)
    ELSE Len(payload) + 1

\* the number of leading bytes signed: what the decoder will verify
\* (declared), or the header and the body as laid out
WindowLen(version, body, declared) ==
    IF declared /\ version \in {4, 5}
    THEN QUOTE_HEADER_LENGTH + body_length(version)
    ELSE QUOTE_HEADER_LENGTH + Len(body)

Built(bytes) ==
    /\ origin.kind = "none"
    /\ res.op = "none"
    /\ input' = bytes
    /\ origin' = Origin("built", 0, 0, 0, 0)
    /\ quote' = None
    /\ res' = NoRes
    /\ vres' = NoRes

\* a producer varies the header fields and the body type
BuildHeaderCase(version, key_type, tee_type, body_type, declared) ==
    /\ version # 5 => (body_type = 2 /\ ~declared)
    /\ LET body == BodyBytes(version, body_type, 0) IN
       Built(QuoteBytes(HeaderBytes(version, key_type, tee_type, 0), body, 1,
                        WindowLen(version, body, declared), 6,
                        Len(QePayload(1, MaxKey, <<>>, <<>>, <<>>)),
                        QePayload(1, MaxKey, <<>>, <<>>, <<>>)))

\* a producer varies the certification-data tag and the declared length;
\* signed: the signature is over the window the decoder verifies, otherwise
\* over one byte less
BuildCertCase(version, tag, mode, signed) ==
    LET body == BodyBytes(version, 3, 1)
        payload == IF tag = 6 THEN QePayload(1, 1, <<>>, <<>>, <<>>)
                   ELSE OpaquePayload
        window == WindowLen(version, body, TRUE)
    IN  Built(QuoteBytes(HeaderBytes(version, KEY_ECDSA256, TEE_TDX, 1), body, 1,
                         IF signed THEN window ELSE window - 1, tag,
                         DeclaredLen(mode, payload), payload))

\* a producer varies the attestation key and the authentication data of a
\* tag-6 payload; stale: the embedded hash was taken over other data
BuildQeCase(ak, auth_len, stale) ==
    LET body == BodyBytes(4, 2, 1)
        payload == QePayload(ak, 1, Pattern(auth_len, 2),
                             Pattern(auth_len, IF stale THEN 3 ELSE 2), <<7, 7>>)
    IN  Built(QuoteBytes(HeaderBytes(4, KEY_ECDSA256, TEE_SGX, 1), body, ak,
                         WindowLen(4, body, TRUE), 6, Len(payload), payload))

TamperOffsets ==
    {0, 2, 4, 7, 8, 47, 48, 49, 50, 53, 54, 631, 632, 695, 696, 701, 702,
     764, 1122}

TamperDeltas == {1, 127, 255}

\* the caller changes one byte of a quote that decoded
Tamper(off, delta) ==
    /\ res.op = "from_bytes"
    /\ res.out.ok
    /\ origin.kind \in {"mock", "built"}
    /\ off < Len(input)
    /\ input' = [input EXCEPT ![off + 1] = (@ + delta) % 256]
    /\ origin' = Origin("tampered", off, res.out.val.header.version, origin.ak, origin.pck)
    /\ res' = NoRes
    /\ vres' = NoRes
    /\ UNCHANGED quote

TruncateLengths == {1, 7, 47, 48, 49, 54, 631, 632, 635, 695, 696, 702, 769, 770}

\* the caller keeps only a proper prefix of a quote that decoded
Truncate(n) ==
    /\ res.op = "from_bytes"
    /\ res.out.ok
    /\ origin.kind \in {"mock", "built"}
    /\ n < Len(input)
    /\ input' = Prefix(input, n)
    /\ origin' = Origin("truncated", n, res.out.val.header.version, origin.ak, origin.pck)
    /\ res' = NoRes
    /\ vres' = NoRes
    /\ UNCHANGED quote

Suffixes == {<<0>>, <<255, 6, 1>>}

\* the caller appends bytes to a quote that decoded
Extend(s) ==
    /\ res.op = "from_bytes"
    /\ res.out.ok
    /\ origin.kind \in {"mock", "built"}
    /\ input' = input \o s
    /\ origin' = Origin("extended", Len(s), res.out.val.header.version, origin.ak, origin.pck)
    /\ res' = NoRes
    /\ vres' = NoRes
    /\ UNCHANGED quote

\* CertificationData::new on a tag, a payload and attestation-key bytes;
\* cut: the number of bytes missing at the end of the payload
CertificationDataNew(tag, qe, ak, key, auth_len, stale, cut) ==
    /\ origin.kind = "none"
    /\ res.op = "none"
    /\ ~qe => (ak = 1 /\ key = 1 /\ auth_len = 0 /\ ~stale /\ cut = 0)
    /\ LET full == IF qe
                   THEN QePayload(ak, 1, Pattern(auth_len, 2),
                                  Pattern(auth_len, IF stale THEN 3 ELSE 2), <<7, 7>>)
                   ELSE OpaquePayload
           data == Prefix(full, Len(full) - cut)
       IN  res' = [op |-> "CertificationData_new",
                   tag |-> tag,
                   data |-> data,
                   key |-> PointOf(key),
                   out |-> CertificationData_new(tag, data, PointOf(key))]
    /\ origin' = Origin("args", 0, 0, 0, 0)
    /\ UNCHANGED <<input, quote, vres>>

HashSlots == {"padded", "last"}

\* a QE report whose last 64 bytes are the hash and then bytes that are not
\* null (padded), or 32 null bytes and then the hash (last)
QeReportBytesAt(hash, slot) ==
    Pattern(384 - 64, 1)
    \o (IF slot = "padded" THEN hash \o Pattern(32, 5) ELSE Rep(0, 32) \o hash)

\* CertificationData::new on a tag-6 payload whose report is laid out by slot
CertificationDataNewReport(ak, key, slot) ==
    /\ origin.kind = "none"
    /\ res.op = "none"
    /\ LET qe_report == QeReportBytesAt(Sha256(PointOf(ak)), slot)
           data == qe_report \o Sign(1, qe_report) \o LeBytesSigned(0, 2) \o <<7>>
       IN  res' = [op |-> "CertificationData_new",
                   tag |-> 6,
                   data |-> data,
                   key |-> PointOf(key),
                   out |-> CertificationData_new(6, data, PointOf(key))]
    /\ origin' = Origin("args", 0, 0, 0, 0)
    /\ UNCHANGED <<input, quote, vres>>

\* Quote::verify_with_pck on the decoded quote
VerifyDecoded(pck) ==
    /\ res.op = "from_bytes"
    /\ res.out.ok
    /\ vres.op = "none"
    /\ vres' = [op |-> "verify_with_pck",
                quote |-> res.out.val,
                pck |-> pck,
                out |-> verify_with_pck(res.out.val, VerifyingKeyOf(pck))]
    /\ UNCHANGED <<input, origin, quote, res>>

\* Quote::verify_with_pck on the quote the mock generator returned
VerifyMock(pck) ==
    /\ quote.some
    /\ input = <<>>
    /\ vres.op = "none"
    /\ vres' = [op |-> "verify_with_pck",
                quote |-> quote.val,
                pck |-> pck,
                out |-> verify_with_pck(quote.val, VerifyingKeyOf(pck))]
    /\ UNCHANGED <<input, origin, quote, res>>

Next ==
    \/ \E ak \in SigningKeys, pck \in SigningKeys, fill \in Fills : Mock(ak, pck, fill)
    \/ AsBytes
    \/ \E v \in Versions, k \in KeyTypes, t \in TeeTypes, b \in BodyTypes, d \in BOOLEAN :
          BuildHeaderCase(v, k, t, b, d)
    \/ \E v \in {4, 5}, tag \in Tags, m \in LenModes, signed \in BOOLEAN :
          BuildCertCase(v, tag, m, signed)
    \/ \E ak \in SigningKeys, n \in 0..MaxAuth, stale \in BOOLEAN :
          BuildQeCase(ak, n, stale)
    \/ \E off \in TamperOffsets, d \in TamperDeltas : Tamper(off, d)
    \/ \E n \in TruncateLengths : Truncate(n)
    \/ \E s \in Suffixes : Extend(s)
    \/ FromBytes
    \/ BodyParser
    \/ \E tag \in Tags, qe \in BOOLEAN, ak \in SigningKeys, key \in SigningKeys,
          n \in 0..MaxAuth, stale \in BOOLEAN, cut \in {0, 3} :
          CertificationDataNew(tag, qe, ak, key, n, stale, cut)
    \/ \E ak \in SigningKeys, key \in SigningKeys, slot \in HashSlots :
          CertificationDataNewReport(ak, key, slot)
    \/ \E pck \in SigningKeys : VerifyDecoded(pck)
    \/ \E pck \in SigningKeys : VerifyMock(pck)

Spec == Init /\ [][Next]_vars

\* ------------------------------------------------------------------------
\* What the claims read off the buffer, by offset

RawVersion(b) == b[1] + 256 * b[2]
RawKeyType(b) == b[3] + 256 * b[4]
RawTeeKnown(b) == SubSeq(b, 5, 8) \in {<<0, 0, 0, 0>>, <<129, 0, 0, 0>>}
RawBodyType(b) == b[49] + 256 * b[50]

Decoded == res.op = "from_bytes"
Accepted == Decoded /\ res.out.ok

\* C1: Quote::from_bytes is total: whatever the input it returns a Quote or
\* one of the QuoteParseError values, never a panic; and an input with a
\* well-formed header, key type 2 and version 4 (5) that has fewer than
\* 48 + 584 (48 + 648) bytes fails with Parse.
C1_FromBytesTotal ==
    Decoded =>
        /\ res.out.ok \/ res.out.err \in QuoteParseErrors
        /\ ( /\ Len(input) >= 48
             /\ RawKeyType(input) = 2
             /\ RawTeeKnown(input)
             /\ \/ RawVersion(input) = 4 /\ Len(input) < 48 + 584
                \/ RawVersion(input) = 5 /\ Len(input) < 48 + 648 )
           => res.out = Err("Parse")

\* C2: every Quote that from_bytes returns carries a signature that verifies
\* under its attestation key over exactly the first 48 + L bytes of the input,
\* L = 584 for version 4 and L = 648 for version 5.
C2_SignatureVerified ==
    Accepted =>
        LET q == res.out.val IN
        /\ q.header.version \in {4, 5}
        /\ \E k \in SigningKeys :
              /\ q.attestation_key = VerifyingKeyOf(k)
              /\ q.signature =
                   Sign(k, SubSeq(input, 1, IF q.header.version = 4 THEN 48 + 584
                                            ELSE 48 + 648))

C2_Witness == Accepted /\ res.out.val.header.version = 5 /\ origin.kind = "built"

\* the signed-data window of a quote version, as the claims state it
ClaimedWindow(version) == IF version = 4 THEN 48 + 584 ELSE 48 + 648

\* one byte of a quote that decoded was changed, inside the window
TamperedInWindow ==
    /\ Decoded
    /\ origin.kind = "tampered"
    /\ origin.off < ClaimedWindow(origin.version)

\* C3 as stated: changing any single byte at an offset 0 .. 48 + L - 1 of an
\* accepted input makes from_bytes fail with Verification.
C3_TamperAlwaysVerification ==
    TamperedInWindow => res.out = Err("Verification")

\* C3, amended: the changed input is never accepted; the failure is
\* Verification unless the byte lies in the version, key-type or TEE-type field
\* (offsets 0..7) or, for a version-5 quote, in the body type (offsets 48, 49),
\* which are checked before the signature: there the failure is Verification,
\* Parse, UnknownQuoteVersion or UnsupportedAttestationKeyType.
C3_TamperRejected ==
    TamperedInWindow =>
        /\ ~res.out.ok
        /\ res.out.err \in {"Verification", "Parse", "UnknownQuoteVersion",
                            "UnsupportedAttestationKeyType"}
        /\ ( /\ origin.off >= 8
             /\ ~(origin.version = 5 /\ origin.off \in {48, 49}) )
           => res.out = Err("Verification")

\* byte 49 of a version-4 quote was changed and decoding failed
C3_Witness ==
    /\ TamperedInWindow
    /\ origin.version = 4
    /\ origin.off = 49
    /\ res.out = Err("Verification")

\* a tag-6 payload with a complete layout
CompleteLayout(data) ==
    /\ Len(data) >= 384 + 64 + 2
    /\ SubSeq(data, 385, 416) # Rep(0, 32)
    /\ SubSeq(data, 417, 448) # Rep(0, 32)
    /\ data[450] < 128
    /\ Len(data) >= 450 + data[449] + 256 * data[450]

AuthOf(data) == SubSeq(data, 451, 450 + data[449] + 256 * data[450])

CertNewApplied == res.op = "CertificationData_new"

\* C4: decoding a tag-6 payload with a complete layout succeeds exactly when
\* SHA-256(attestation-key bytes || authentication data) is the 32-byte hash
\* embedded in the QE report (bytes 320..351 of the report), and fails with
\* AttestationKeyDoesNotMatch otherwise.
C4_HashBinding ==
    (CertNewApplied /\ res.tag = 6 /\ CompleteLayout(res.data)) =>
        IF Sha256(res.key \o AuthOf(res.data)) = SubSeq(res.data, 321, 352)
        THEN /\ res.out.ok
             /\ res.out.val.qe.qe_authentication_data = AuthOf(res.data)
        ELSE res.out = Err("AttestationKeyDoesNotMatch")

\* the authentication data differ from those hashed, and decoding fails
C4_Witness ==
    /\ CertNewApplied
    /\ res.tag = 6
    /\ CompleteLayout(res.data)
    /\ AuthOf(res.data) # <<>>
    /\ res.out = Err("AttestationKeyDoesNotMatch")

\* the version dispatch of a decoded body, given the buffer it came from
DispatchOf(version, body) ==
    /\ version = 4 =>
          /\ body.tdx_version = "One"
          /\ ~body.tee_tcb_svn_2.some
          /\ ~body.mrservicetd.some
    /\ (version = 5 /\ RawBodyType(input) = 2) =>
          /\ body.tdx_version = "One"
          /\ ~body.tee_tcb_svn_2.some
          /\ ~body.mrservicetd.some
    /\ (version = 5 /\ RawBodyType(input) = 3) =>
          /\ body.tdx_version = "OnePointFive"
          /\ body.tee_tcb_svn_2 = Some(SubSeq(input, 48 + 6 + 584 + 1, 48 + 6 + 584 + 16))
          /\ body.mrservicetd = Some(SubSeq(input, 48 + 6 + 584 + 17, 48 + 6 + 584 + 64))
    /\ body.tee_tcb_svn_2.some <=> body.tdx_version = "OnePointFive"
    /\ body.mrservicetd.some <=> body.tdx_version = "OnePointFive"

\* C5: version 4 yields tdx_version One with both optional fields None;
\* version 5 with body type 2 the same; version 5 with body type 3 yields
\* OnePointFive with both Some, the 16 and 48 bytes after the 584-byte record;
\* the optional fields are present exactly when tdx_version is OnePointFive.
C5_VersionDispatch ==
    /\ Accepted => DispatchOf(res.out.val.header.version, res.out.val.body)
    /\ (res.op = "body_parser" /\ res.out.ok) => DispatchOf(res.version, res.out.val)

C5_Witness ==
    /\ Accepted
    /\ res.out.val.header.version = 5
    /\ res.out.val.body.tdx_version = "OnePointFive"
    /\ res.out.val.body.mrservicetd.some

\* the header parses with key type ECDSA-P256
HeaderP256 ==
    /\ Len(input) >= 48
    /\ RawKeyType(input) = 2
    /\ RawTeeKnown(input)

\* C6 as stated: UnknownQuoteVersion for a version other than 4 and 5, and
\* for a version-5 input whose body type is neither 2 nor 3.
C6_UnknownVersionOrBodyType ==
    (Decoded /\ HeaderP256) =>
        /\ RawVersion(input) \notin {4, 5} => res.out = Err("UnknownQuoteVersion")
        /\ ( /\ RawVersion(input) = 5
             /\ Len(input) >= 50
             /\ RawBodyType(input) \notin {2, 3} )
           => res.out = Err("UnknownQuoteVersion")

\* C6, amended: UnknownQuoteVersion for a version other than 4 and 5; a
\* version-5 input of at least 48 + 648 bytes whose body type is neither 2 nor
\* 3 fails with Parse.
C6_UnknownVersion ==
    (Decoded /\ HeaderP256) =>
        /\ RawVersion(input) \notin {4, 5} => res.out = Err("UnknownQuoteVersion")
        /\ ( /\ RawVersion(input) = 5
             /\ Len(input) >= 48 + 648
             /\ RawBodyType(input) \notin {2, 3} )
           => res.out = Err("Parse")

C6_Witness ==
    /\ Decoded
    /\ HeaderP256
    /\ RawVersion(input) = 5
    /\ Len(input) >= 48 + 648
    /\ RawBodyType(input) = 1
    /\ res.out = Err("Parse")

\* C7 as stated: UnsupportedAttestationKeyType for every input of at least 48
\* bytes whose key type is not 2, whatever the version and the other bytes.
C7_AnyOtherKeyTypeUnsupported ==
    (Decoded /\ Len(input) >= 48 /\ RawKeyType(input) # 2) =>
        res.out = Err("UnsupportedAttestationKeyType")

\* C7, amended: UnsupportedAttestationKeyType when the key type is 3
\* (ECDSA-P384) and the TEE type is known (0 or 0x81), whatever the version and
\* the bytes after the header; Parse when the key type is neither 2 nor 3.
C7_KeyTypeRejected ==
    (Decoded /\ Len(input) >= 48) =>
        /\ (RawKeyType(input) = 3 /\ RawTeeKnown(input)) =>
              res.out = Err("UnsupportedAttestationKeyType")
        /\ RawKeyType(input) \notin {2, 3} => res.out = Err("Parse")

C7_Witness ==
    /\ Decoded
    /\ Len(input) >= 48
    /\ RawKeyType(input) = 3
    /\ RawVersion(input) = 3
    /\ res.out = Err("UnsupportedAttestationKeyType")

\* where the signature section starts
SectionStart(b) ==
    48 + (IF RawVersion(b) = 4 THEN 584
          ELSE IF RawBodyType(b) = 3 THEN 6 + 584 + 64 ELSE 6 + 584)

\* the header and body are well formed and the top-level signature verifies
TopLevelVerifies(b) ==
    /\ Len(b) >= 50
    /\ RawKeyType(b) = 2
    /\ RawTeeKnown(b)
    /\ RawVersion(b) \in {4, 5}
    /\ RawVersion(b) = 5 => RawBodyType(b) \in {2, 3}
    /\ Len(b) >= SectionStart(b) + 4 + 64 + 64
    /\ \E k \in SigningKeys :
          /\ SubSeq(b, SectionStart(b) + 69, SectionStart(b) + 132) = PointOf(k)
          /\ SubSeq(b, SectionStart(b) + 5, SectionStart(b) + 68)
               = Sign(k, SubSeq(b, 1, ClaimedWindow(RawVersion(b))))

RawTag(b) == I16Value(SubSeq(b, SectionStart(b) + 133, SectionStart(b) + 134))

RawCertLen(b) == I32Value(SubSeq(b, SectionStart(b) + 135, SectionStart(b) + 138))

RawPayload(b) ==
    SubSeq(b, SectionStart(b) + 139, SectionStart(b) + 138 + RawCertLen(b))

\* the tag dispatch of CertificationData::new
NewDispatch ==
    CertNewApplied =>
        /\ res.tag \in {1, 2, 3, 4, 5, 7} =>
              res.out = Ok([variant |-> VariantNames[res.tag], data |-> res.data])
        /\ (res.tag = 6 /\ res.out.ok) =>
              res.out.val.variant = "QeReportCertificationData"
        /\ res.tag \notin 1..7 => res.out = Err("UnknownCertificationDataType")

\* the tag dispatch seen through from_bytes, for an accepted input
AcceptedDispatch ==
    Accepted =>
        /\ RawTag(input) \in 1..7
        /\ res.out.val.certification_data.variant = VariantNames[RawTag(input)]
        /\ RawTag(input) # 6 =>
              res.out.val.certification_data.data = RawPayload(input)

\* C8 as stated: tag t in 1..7 gives variant t, with the payload verbatim for
\* t other than 6; a tag outside 1..7 makes CertificationData::new, and
\* from_bytes on an input whose top-level signature verifies, fail with
\* UnknownCertificationDataType.
C8_TagDispatchAnyLength ==
    /\ NewDispatch
    /\ AcceptedDispatch
    /\ ( /\ Decoded
         /\ TopLevelVerifies(input)
         /\ Len(input) >= SectionStart(input) + 134
         /\ RawTag(input) \notin 1..7 )
       => res.out = Err("UnknownCertificationDataType")

\* C8, amended: as stated, except that from_bytes fails with
\* UnknownCertificationDataType only when the declared certification-data
\* length is non-negative and no more than the bytes that follow it; a negative
\* length fails with IntConversionError and a length beyond the input with
\* Parse, whatever the tag.
C8_TagDispatch ==
    /\ NewDispatch
    /\ AcceptedDispatch
    /\ ( /\ Decoded
         /\ TopLevelVerifies(input)
         /\ Len(input) >= SectionStart(input) + 138 )
       => /\ RawCertLen(input) < 0 => res.out = Err("IntConversionError")
          /\ RawCertLen(input) > Len(input) - (SectionStart(input) + 138) =>
                res.out = Err("Parse")
          /\ ( /\ RawCertLen(input) >= 0
               /\ RawCertLen(input) <= Len(input) - (SectionStart(input) + 138)
               /\ RawTag(input) \notin 1..7 )
             => res.out = Err("UnknownCertificationDataType")

C8_Witness ==
    /\ Decoded
    /\ TopLevelVerifies(input)
    /\ Len(input) >= SectionStart(input) + 138
    /\ RawTag(input) = 8
    /\ RawCertLen(input) = 3
    /\ res.out = Err("UnknownCertificationDataType")

Verified == vres.op = "verify_with_pck"

\* C9: verify_with_pck returns NoQeReportCertificationData when the
\* certification data is not the QE report variant, whatever the key;
\* otherwise Ok exactly when the stored signature is the PCK's signature over
\* the 384 qe_report bytes, and BadSignature for any other key; the quote it
\* was applied to is unchanged.
C9_VerifyWithPck ==
    Verified =>
        LET cd == vres.quote.certification_data IN
        /\ IF cd.variant # "QeReportCertificationData"
           THEN vres.out = Err("NoQeReportCertificationData")
           ELSE IF Len(cd.qe.qe_report) = 384
                   /\ cd.qe.signature = Sign(vres.pck, cd.qe.qe_report)
                THEN vres.out.ok
                ELSE vres.out = Err("BadSignature")
        /\ Decoded => vres.quote = res.out.val
        /\ ~Decoded => vres.quote = quote.val

C9_Witness ==
    /\ Verified
    /\ Decoded
    /\ vres.quote.certification_data.variant = "QeReportCertificationData"
    /\ vres.out = Err("BadSignature")

\* C10: the bytes of a mock quote decode to the mock quote itself, field by
\* field; its attestation key is the public key of the attestation signing
\* key; and verify_with_pck succeeds with the public key of the PCK.
C10_MockRoundTrip ==
    origin.kind = "mock" =>
        /\ quote.val.attestation_key = VerifyingKeyOf(origin.ak)
        /\ Decoded =>
              /\ res.out.ok
              /\ res.out.val.header = quote.val.header
              /\ res.out.val.body = quote.val.body
              /\ res.out.val.signature = quote.val.signature
              /\ res.out.val.attestation_key = quote.val.attestation_key
              /\ res.out.val.certification_data = quote.val.certification_data
        /\ (Verified /\ vres.pck = origin.pck) => vres.out.ok

C10_Witness ==
    /\ origin.kind = "mock"
    /\ Decoded
    /\ res.out.ok
    /\ res.out.val = quote.val
    /\ Verified
    /\ vres.pck = origin.pck
    /\ vres.out.ok

\* ------------------------------------------------------------------------
\* C11

\* the digest the tag-6 decoder recomputes for a payload
RecomputedHash == Sha256(res.key \o AuthOf(res.data))

Tag6Applied == CertNewApplied /\ res.tag = 6 /\ CompleteLayout(res.data)

\* C11 as stated: in the tag-6 decoder the expected-hash window compared with
\* the recomputed SHA-256 digest is the QE-report byte range [352, 384), the
\* last 32 bytes of the report: decoding succeeds exactly when these bytes
\* are the digest.
C11_HashWindowLast32 ==
    Tag6Applied => (res.out.ok <=> RecomputedHash = SubSeq(res.data, 353, 384))

\* C11, amended: the expected-hash window is the QE-report byte range
\* [320, 352), the first half of the report's last 64 bytes. A payload whose
\* bytes [320, 352) are the digest decodes whatever its bytes [352, 384) are,
\* a payload that carries the digest only in [352, 384) fails with
\* AttestationKeyDoesNotMatch, and changing byte 352 of the report of an
\* accepted version-4 quote leaves it accepted.
C11_HashWindow ==
    /\ Tag6Applied =>
          /\ RecomputedHash = SubSeq(res.data, 321, 352) =>
                /\ res.out.ok
                /\ SubSeq(res.out.val.qe.qe_report, 321, 352) = RecomputedHash
                /\ SubSeq(res.out.val.qe.qe_report, 353, 384) = SubSeq(res.data, 353, 384)
          /\ (RecomputedHash = SubSeq(res.data, 353, 384)
                 /\ RecomputedHash # SubSeq(res.data, 321, 352)) =>
                res.out = Err("AttestationKeyDoesNotMatch")
    /\ (Decoded /\ origin.kind = "tampered" /\ origin.version = 4
          /\ origin.off = 1122) => res.out.ok

\* a payload that carries the digest in [352, 384), after 32 null bytes, is
\* refused
C11_Witness ==
    /\ Tag6Applied
    /\ RecomputedHash = SubSeq(res.data, 353, 384)
    /\ SubSeq(res.data, 321, 352) = Rep(0, 32)
    /\ res.out = Err("AttestationKeyDoesNotMatch")

\* the bytes after the hash are not null and the payload decodes
C11_PaddedAccepted ==
    /\ Tag6Applied
    /\ SubSeq(res.data, 353, 384) # Rep(0, 32)
    /\ res.out.ok

\* ------------------------------------------------------------------------
\* C12

\* the 64 bytes read from the quote as the attestation key
RawKey(b) == SubSeq(b, SectionStart(b) + 69, SectionStart(b) + 132)

\* from_bytes reached the tag-6 decoder with a payload of a complete layout
Tag6Decoded ==
    /\ Decoded
    /\ TopLevelVerifies(input)
    /\ Len(input) >= SectionStart(input) + 138
    /\ RawTag(input) = 6
    /\ RawCertLen(input) >= 0
    /\ Len(input) >= SectionStart(input) + 138 + RawCertLen(input)
    /\ CompleteLayout(RawPayload(input))

\* C12 as stated: the attestation-key bytes hashed in the binding check
\* SHA-256(key bytes || auth data) are the 65-byte uncompressed encoding, the
\* byte 0x04 followed by the 64 raw X||Y bytes read from the quote.
C12_KeyBytesWithPrefix ==
    Tag6Decoded =>
        (res.out.ok <=>
            Sha256((<<4>> \o RawKey(input)) \o AuthOf(RawPayload(input)))
              = SubSeq(RawPayload(input), 321, 352))

\* C12, amended: the attestation-key bytes that from_bytes passes to the
\* certification-data decoder and that are hashed in the binding check are
\* the 64 raw X||Y bytes read from the quote, without the byte 0x04 (which
\* is prepended only to decode the verifying key); the quote is accepted
\* exactly when their digest with the authentication data is the embedded
\* hash, and is refused with AttestationKeyDoesNotMatch otherwise.
C12_KeyBytesRaw ==
    Tag6Decoded =>
        IF Sha256(RawKey(input) \o AuthOf(RawPayload(input)))
             = SubSeq(RawPayload(input), 321, 352)
        THEN /\ res.out.ok
             /\ to_sec1_bytes(res.out.val.attestation_key) = <<4>> \o RawKey(input)
        ELSE res.out = Err("AttestationKeyDoesNotMatch")

\* an accepted quote whose embedded hash is the digest of the 64 raw key
\* bytes and the authentication data
C12_Witness ==
    /\ Tag6Decoded
    /\ res.out.ok
    /\ AuthOf(RawPayload(input)) # <<>>
    /\ Len(RawKey(input)) = 64
    /\ Sha256(RawKey(input) \o AuthOf(RawPayload(input)))
         = SubSeq(RawPayload(input), 321, 352)

\* ------------------------------------------------------------------------
\* C13

\* C13: for every accepted input the signed-data window coincides with the
\* bytes the header and body decoders consume: it ends exactly where the
\* 4-byte signature-section length begins, for version 4 and for version 5
\* with body type 2 and with body type 3, so that every byte decoded into a
\* header or body field is signed: changing one leaves no accepted quote.
C13_WindowIsConsumed ==
    /\ Accepted =>
          /\ signed_data(input, res.out.val.header.version)
               = signed_data_consumed(input, res.out.val.header.version)
          /\ Len(signed_data(input, res.out.val.header.version)) = SectionStart(input)
    /\ (Decoded /\ origin.kind = "tampered" /\ origin.off < SectionStart(input)) =>
          ~res.out.ok

\* ------------------------------------------------------------------------
\* C14

\* a well-formed header and body, and at least 128 bytes after the
\* signature-section length
WellFormedToKey(b) ==
    /\ Len(b) >= 50
    /\ RawKeyType(b) = 2
    /\ RawTeeKnown(b)
    /\ RawVersion(b) \in {4, 5}
    /\ RawVersion(b) = 5 => RawBodyType(b) \in {2, 3}
    /\ Len(b) >= SectionStart(b) + 4 + 128

CertificationErrors ==
    {"IntConversionError", "UnknownCertificationDataType", "AttestationKeyDoesNotMatch"}

\* C14: certification data is decoded only after the top-level signature has
\* verified. For an input with a well-formed header and body and at least
\* 128 bytes after the signature-section length whose signature does not
\* verify under the embedded key over the signed-data window, the result is
\* Verification whatever the certification-data tag, length and payload are;
\* IntConversionError, UnknownCertificationDataType and
\* AttestationKeyDoesNotMatch are returned only for inputs whose top-level
\* signature verified.
C14_VerifyBeforeCertification ==
    Decoded =>
        /\ (WellFormedToKey(input) /\ ~TopLevelVerifies(input)) =>
              res.out = Err("Verification")
        /\ (~res.out.ok /\ res.out.err \in CertificationErrors) =>
              TopLevelVerifies(input)

\* the signature does not verify and the certification data carry an unknown
\* tag and a negative length: the result is Verification
C14_Witness ==
    /\ Decoded
    /\ WellFormedToKey(input)
    /\ ~TopLevelVerifies(input)
    /\ Len(input) >= SectionStart(input) + 138
    /\ RawTag(input) \notin 1..7
    /\ RawCertLen(input) < 0
    /\ res.out = Err("Verification")

\* ------------------------------------------------------------------------
\* C15

\* where the declared certification-data payload ends
DeclaredEnd(b) == SectionStart(b) + 138 + RawCertLen(b)

\* the buffer is an accepted quote, which ended with its declared
\* certification data, followed by appended bytes
Extended ==
    /\ Decoded
    /\ origin.kind = "extended"

\* C15: trailing input is ignored: for an accepted input b, cut at the end
\* of the declared certification-data length, and any bytes s appended to
\* it, from_bytes(b ++ s) = from_bytes(b); the result depends only on the
\* bytes up to the end of the declared payload, and no bytes beyond it need
\* to be present.
C15_TrailingIgnored ==
    /\ Extended =>
          /\ DeclaredEnd(input) = Len(input) - origin.off
          /\ res.out.ok
          /\ res.out = from_bytes(Prefix(input, DeclaredEnd(input)))
    /\ Accepted =>
          /\ Len(input) >= DeclaredEnd(input)
          /\ res.out = from_bytes(Prefix(input, DeclaredEnd(input)))

\* a quote with bytes appended decodes to the quote without them
C15_Witness ==
    /\ Extended
    /\ origin.off = 3
    /\ Len(input) = DeclaredEnd(input) + 3
    /\ res.out.ok
    /\ res.out.val.certification_data.variant = "QeReportCertificationData"
    /\ res.out = from_bytes(Prefix(input, Len(input) - 3))

=========================================================================
